---- MODULE Spec2Model ----
(***************************************************************************)
(* Model of mediumvioletred.py: the FontGeneratorApp session.  The state   *)
(* is the window's fields and widgets, the files the handlers touch, and   *)
(* the stack of handler calls that are in progress: log_message runs       *)
(* QApplication.processEvents(), so a handler that logs can have another   *)
(* handler dispatched inside it.                                           *)
(***************************************************************************)
EXTENDS Integers, Sequences, FiniteSets, TLC

\* ---------------------------------------------------------------- bounds
MaxTokens == 2      \* longest document text on disk at start, in tokens
MaxEvents == 3      \* handler calls in one session that get past their dialog
MaxNested == 1      \* events (list clicks included) dispatched inside a handler's processEvents

\* ------------------------------------------------------------- constants
FONT_NAME == "MyCustomFont"

\* ------------------------------------------------------- document texts
\* A document's text is a sequence of tokens: start tags, end tags and
\* character data.  Start and end tags may be written in upper case.
Tok(k, n, sel) == [k |-> k, n |-> n, sel |-> sel]
OpenT(n)  == Tok("open", n, {})
CloseT(n) == Tok("close", n, {})

WrittenNames == {"html", "head", "p", "P"}
StartTokens  == {OpenT(n) : n \in WrittenNames} \cup {CloseT(n) : n \in {"html", "head", "p"}}

RECURSIVE TextsOfLen(_)
TextsOfLen(k) ==
    IF k = 0 THEN {<<>>}
    ELSE {Append(t, tok) : t \in TextsOfLen(k - 1), tok \in StartTokens}

AllTexts == UNION {TextsOfLen(k) : k \in 0..MaxTokens}

\* html.parser lower-cases tag names before BeautifulSoup sees them.
Lower(n) == IF n = "P" THEN "p" ELSE n

\* The parsed tree, in document order: each node with its depth below the
\* BeautifulSoup root object.  Character data is a node named "#text".
Node(n, d, sel) == [n |-> n, d |-> d, sel |-> sel]

Last(s) == s[Len(s)]
Front(s) == SubSeq(s, 1, Len(s) - 1)

InSeq(x, s) == \E i \in 1..Len(s) : s[i] = x

\* BeautifulSoup._popToTag: an end tag closes the innermost open element of
\* that name together with everything opened inside it; with no such element
\* open it is ignored.
RECURSIVE PopToTag(_, _)
PopToTag(open, n) ==
    IF ~InSeq(n, open) THEN open
    ELSE IF Last(open) = n THEN Front(open)
    ELSE PopToTag(Front(open), n)

\* BeautifulSoup(content, 'html.parser'): feed the tokens in order; elements
\* still open at the end of the text are closed there.
RECURSIVE ParseFrom(_, _, _, _)
ParseFrom(text, i, open, nodes) ==
    IF i > Len(text) THEN nodes
    ELSE LET tok == text[i] IN
         CASE tok.k = "open" ->
                ParseFrom(text, i + 1, Append(open, Lower(tok.n)),
                          Append(nodes, Node(Lower(tok.n), Len(open), {})))
           [] tok.k = "close" ->
                ParseFrom(text, i + 1, PopToTag(open, Lower(tok.n)), nodes)
           [] OTHER ->
                ParseFrom(text, i + 1, open,
                          Append(nodes, Node("#text", Len(open), tok.sel)))

BeautifulSoup(content) == ParseFrom(content, 1, <<>>, <<>>)

\* soup.find_all(): every element of the tree (character data is not a Tag).
find_all(soup) == {i \in 1..Len(soup) : soup[i].n # "#text"}

\* soup.head / soup.html: the first element of that name in document order,
\* 0 standing for None.
FindFirst(soup, n) ==
    IF \E i \in 1..Len(soup) : soup[i].n = n
    THEN CHOOSE i \in 1..Len(soup) :
            soup[i].n = n /\ \A j \in 1..(i - 1) : soup[j].n # n
    ELSE 0

\* Index of the last node of the subtree rooted at node i.
SubtreeEnd(soup, i) ==
    CHOOSE e \in i..Len(soup) :
        /\ \A j \in (i + 1)..e : soup[j].d > soup[i].d
        /\ (e = Len(soup) \/ soup[e + 1].d <= soup[i].d)

InsertAfter(s, i, ins) == SubSeq(s, 1, i) \o ins \o SubSeq(s, i + 1, Len(s))

\* tag.append(child): child becomes the last child of node i.
TagAppend(soup, i, sub) ==
    InsertAfter(soup, SubtreeEnd(soup, i),
                [k \in 1..Len(sub) |-> Node(sub[k].n, sub[k].d + soup[i].d + 1, sub[k].sel)])

\* tag.insert(0, child): child becomes the first child of node i.
TagInsert0(soup, i, sub) ==
    InsertAfter(soup, i,
                [k \in 1..Len(sub) |-> Node(sub[k].n, sub[k].d + soup[i].d + 1, sub[k].sel)])

\* The style element of lines 263-276: a style tag whose string is the CSS
\* for the selected tags (the @font-face rule names FONT_NAME throughout).
StyleTag(selected_tags) == <<Node("style", 0, {}), Node("#text", 1, selected_tags)>>

\* str(soup): every element written as start tag, children, end tag.
RECURSIVE ClosesDown(_, _)
ClosesDown(open, d) ==
    IF Len(open) <= d THEN <<>>
    ELSE <<CloseT(Last(open))>> \o ClosesDown(Front(open), d)

RECURSIVE DecodeFrom(_, _, _)
DecodeFrom(soup, i, open) ==
    IF i > Len(soup) THEN ClosesDown(open, 0)
    ELSE LET nd   == soup[i]
             kept == SubSeq(open, 1, nd.d)
         IN ClosesDown(open, nd.d) \o
            (IF nd.n = "#text"
             THEN <<Tok("text", "", nd.sel)>> \o DecodeFrom(soup, i + 1, kept)
             ELSE <<OpenT(nd.n)>> \o DecodeFrom(soup, i + 1, Append(kept, nd.n)))

Decode(soup) == DecodeFrom(soup, 1, <<>>)

\* Code-point order of the names, as Python's sorted() compares them.
NameRank(n) ==
    CASE n = "head"  -> 1
      [] n = "html"  -> 2
      [] n = "p"     -> 3
      [] n = "style" -> 4
      [] OTHER       -> 0

\* sorted() with the order reversed.
RECURSIVE sorted_descending(_)
sorted_descending(S) ==
    IF S = {} THEN <<>>
    ELSE LET m == CHOOSE x \in S : \A y \in S : NameRank(x) >= NameRank(y)
         IN <<m>> \o sorted_descending(S \ {m})

RECURSIVE sorted(_)
sorted(S) ==
    IF S = {} THEN <<>>
    ELSE LET m == CHOOSE x \in S : \A y \in S : NameRank(x) <= NameRank(y)
         IN <<m>> \o sorted(S \ {m})

\* ------------------------------------------------------------ glyph files
\* A glyph file is NAME.svg; NAME is kept as its sequence of characters.
Folders == {"icons", "mixed", "empty"}

FolderStems(folder) ==
    CASE folder = "icons" -> {<<"a">>, <<"b">>}
      [] folder = "mixed" -> {<<"a">>, <<"U", "+", "0", "0", "4", "1">>, <<"h", "o", "m", "e">>}
      [] OTHER            -> {}

CharRank(c) ==
    CASE c = "+" -> 43 [] c = "." -> 46 [] c = "0" -> 48 [] c = "1" -> 49
      [] c = "4" -> 52 [] c = "U" -> 85 [] c = "a" -> 97 [] c = "b" -> 98
      [] c = "e" -> 101 [] c = "g" -> 103 [] c = "h" -> 104 [] c = "m" -> 109
      [] c = "o" -> 111 [] c = "s" -> 115 [] c = "v" -> 118 [] OTHER -> 0

FileName(stem) == stem \o <<".", "s", "v", "g">>

RECURSIVE LexLeq(_, _)
LexLeq(a, b) ==
    IF a = <<>> THEN TRUE
    ELSE IF b = <<>> THEN FALSE
    ELSE IF Head(a) = Head(b) THEN LexLeq(Tail(a), Tail(b))
    ELSE CharRank(Head(a)) < CharRank(Head(b))

\* sorted(glob.glob(os.path.join(folder, "*.svg")))
RECURSIVE SortedStems(_)
SortedStems(S) ==
    IF S = {} THEN <<>>
    ELSE LET m == CHOOSE x \in S : \A y \in S : LexLeq(FileName(x), FileName(y))
         IN <<m>> \o SortedStems(S \ {m})

glob(folder) == SortedStems(FolderStems(folder))

\* generate_fontforge_script: the text is fixed but for the output path.
generate_fontforge_script(output_file) ==
    [font |-> FONT_NAME, em |-> 1000, width |-> 600, out |-> output_file]

\* The script's loop body: Select(CharToUnicode(substr(base, 0, 1))); Paste().
\* Each file is pasted into the slot of the first character of its base name;
\* a later file with the same first character replaces an earlier one.
ScriptGlyphs(svg_files) ==
    {[cp |-> svg_files[i][1], src |-> svg_files[i]] :
        i \in {k \in 1..Len(svg_files) :
                 \A j \in (k + 1)..Len(svg_files) : svg_files[j][1] # svg_files[k][1]}}

\* ------------------------------------------------------------------ state
Docs == {"a.html", "b.php"}
backup_dir == "backups"
BackupPath(base_name) == backup_dir \o "/" \o base_name

Msg(m, s) == [m |-> m, s |-> s]

VARIABLES
    files,          \* regular files of the document directory: path -> text
    dirs,           \* directories that exist below the document directory
    tmp,            \* self.temp_dir on disk: [exists, script]
    font_out,       \* the font files the compiler has produced
    fontforge_path, \* self.fontforge_path ("None" when not found)
    svg_folder,     \* self.svg_folder
    html_file,      \* self.html_file
    tags_list,      \* items of self.tags_list
    selected,       \* selected items of self.tags_list
    modify_btn,     \* self.modify_btn.isEnabled()
    generate_btn,   \* self.generate_btn.isEnabled()
    console,        \* lines appended to self.console
    stack,          \* handler calls in progress, innermost last
    window,         \* "open" or "closed"
    process,        \* "running" or "killed"
    events,         \* user events dispatched so far
    nested,         \* events dispatched from inside a handler in progress
    loaded          \* the text tags_list was last filled from, if any

fsVars  == <<files, dirs, tmp, font_out>>
docVars == <<html_file, tags_list, selected, modify_btn, loaded>>
svgVars == <<svg_folder, generate_btn>>
vars == <<files, dirs, tmp, font_out, fontforge_path, svg_folder, html_file,
          tags_list, selected, modify_btn, generate_btn, console, stack,
          window, process, events, nested, loaded>>

\* A handler call in progress.  pc names the statement the call is inside:
\* mostly a log_message call, whose processEvents() may dispatch events.
\* doc, pre and wrote record, for a modify_html call, the document it was
\* entered for, that document's text at entry and the paths the call has
\* written so far; runs counts the compiler runs of a generate_font call.
Frame(op, pc) ==
    [op |-> op, pc |-> pc, doc |-> "", selected_tags |-> {}, content |-> <<>>,
     soup |-> <<>>, svg_files |-> <<>>, output_file |-> "", rc |-> 0,
     stderr |-> "", runs |-> 0, pre |-> <<>>, wrote |-> <<>>]

Top == stack[Len(stack)]
Push(f) == Append(stack, f)
Pop == SubSeq(stack, 1, Len(stack) - 1)
SetTop(f) == [stack EXCEPT ![Len(stack)] = f]

\* pcs at which the call is inside QApplication.processEvents()
InProcessEvents ==
    {"svg_selected", "svg_none", "load_ok", "load_failed", "file_selected",
     "gf_nofolder", "gf_generating", "gf_events", "gf_ok", "gf_note", "gf_failed",
     "gf_critical", "mh_nofile", "mh_notags", "mh_ok1", "mh_ok2", "mh_ok3",
     "mh_ok4", "mh_error"}

Exited == window = "closed" /\ stack = <<>>
Alive == process = "running" /\ ~Exited

\* An event handler is entered from the main loop, or from a processEvents()
\* call of a handler in progress, while the window is open.
CanDispatch ==
    /\ Alive
    /\ window = "open"
    /\ IF stack = <<>> THEN TRUE ELSE Top.pc \in InProcessEvents /\ nested < MaxNested

Dispatched ==
    /\ events < MaxEvents
    /\ events' = events + 1
    /\ nested' = IF stack = <<>> THEN nested ELSE nested + 1

At(op, pc) == Alive /\ stack # <<>> /\ Top.op = op /\ Top.pc = pc

log_message(message) == console' = Append(console, message)

\* Documents a session is run on: empty, with a head section, with an
\* html root but no head, a fragment with no html root (a PHP partial), and
\* malformed markup (upper case, unclosed elements).
Fragment == <<OpenT("p"), CloseT("p")>>

SessionTexts ==
    {<<>>,
     <<OpenT("html"), OpenT("head"), CloseT("head"), OpenT("p"), CloseT("p"), CloseT("html")>>,
     <<OpenT("html"), OpenT("p"), CloseT("p"), CloseT("html")>>,
     Fragment,
     <<OpenT("html"), OpenT("P"), OpenT("p")>>}

\* __init__: fields set, temp dir made, find_fontforge and
\* check_dependencies have logged their line.  The document directory holds
\* a.html with one of the given texts and, among docs, a PHP fragment.
Constructed(found, texts, docs) ==
    /\ files \in {[d \in docs |-> IF d = "a.html" THEN t ELSE Fragment] : t \in texts}
    /\ dirs = {}
    /\ tmp = [exists |-> TRUE, script |-> <<>>]
    /\ font_out = {}
    /\ fontforge_path \in found
    /\ svg_folder = ""
    /\ html_file = ""
    /\ tags_list = <<>>
    /\ selected = {}
    /\ modify_btn = FALSE
    /\ generate_btn = FALSE
    /\ console = <<Msg(IF fontforge_path = "None" THEN "fontforge_missing" ELSE "fontforge_found",
                       fontforge_path),
                   Msg("bs4_installed", "")>>
    /\ stack = <<>>
    /\ window = "open"
    /\ process = "running"
    /\ events = 0
    /\ nested = 0
    /\ loaded = <<>>

Init == Constructed({"/usr/bin/fontforge", "None"}, SessionTexts, Docs)

\* ------------------------------------------------------ select_svg_folder
select_svg_folder ==
    /\ CanDispatch
    /\ \E folder \in Folders \cup {""} :
         IF folder = ""
         THEN UNCHANGED <<svg_folder, generate_btn, console, stack, events, nested>>
         ELSE /\ Dispatched
              /\ IF glob(folder) # <<>>
                 THEN /\ svg_folder' = folder
                      /\ generate_btn' = (fontforge_path # "None")
                      /\ log_message(Msg("svg_selected", folder))
                      /\ stack' = Push(Frame("select_svg_folder", "svg_selected"))
                 ELSE /\ log_message(Msg("svg_none", ""))
                      /\ stack' = Push(Frame("select_svg_folder", "svg_none"))
                      /\ UNCHANGED <<svg_folder, generate_btn>>
    /\ UNCHANGED <<fsVars, docVars, fontforge_path, window, process>>

select_svg_folder_return ==
    /\ \/ At("select_svg_folder", "svg_selected") /\ UNCHANGED generate_btn
       \/ At("select_svg_folder", "svg_none") /\ generate_btn' = FALSE
    /\ stack' = Pop
    /\ UNCHANGED <<fsVars, docVars, fontforge_path, svg_folder, console, window,
                   process, events, nested>>

\* ------------------------------------------- select_html_file, load_html_tags
\* open(...).read() can fail (unreadable file, bytes that are not UTF-8).
load_html_tags(file, readable) ==
    /\ selected' = {}
    /\ IF readable
       THEN LET content == files[file]
                soup    == BeautifulSoup(content)
                tags    == {soup[i].n : i \in find_all(soup)}
                shown   == sorted({tag \in tags : tag # ""})
            IN /\ tags_list' = shown
               /\ modify_btn' = TRUE
               /\ loaded' = <<content>>
               /\ log_message(Msg("tags_found", ""))
               /\ stack' = Push(Frame("select_html_file", "load_ok"))
       ELSE /\ tags_list' = <<>>
            /\ loaded' = <<>>
            /\ log_message(Msg("load_error", ""))
            /\ stack' = Push(Frame("select_html_file", "load_failed"))
            /\ UNCHANGED modify_btn

select_html_file ==
    /\ CanDispatch
    /\ \E file \in (Docs \cap DOMAIN files) \cup {""}, readable \in BOOLEAN :
         IF file = ""
         THEN UNCHANGED <<docVars, console, stack, events, nested>>
         ELSE /\ Dispatched
              /\ html_file' = file
              /\ load_html_tags(file, readable)
    /\ UNCHANGED <<fsVars, svgVars, fontforge_path, window, process>>

select_html_file_resume ==
    /\ \/ /\ At("select_html_file", "load_ok")
          /\ UNCHANGED modify_btn
       \/ /\ At("select_html_file", "load_failed")
          /\ modify_btn' = FALSE
    /\ log_message(Msg("file_selected", ""))
    /\ stack' = SetTop([Top EXCEPT !.pc = "file_selected"])
    /\ UNCHANGED <<fsVars, svgVars, fontforge_path, html_file, tags_list, selected,
                   loaded, window, process, events, nested>>

select_html_file_return ==
    /\ At("select_html_file", "file_selected")
    /\ stack' = Pop
    /\ UNCHANGED <<fsVars, svgVars, docVars, fontforge_path, console, window,
                   process, events, nested>>

\* A click on an item of the MultiSelection list toggles it.
toggle_tag ==
    /\ CanDispatch
    /\ \E i \in 1..Len(tags_list) :
         selected' = IF tags_list[i] \in selected
                     THEN selected \ {tags_list[i]}
                     ELSE selected \cup {tags_list[i]}
    /\ nested' = IF stack = <<>> THEN nested ELSE nested + 1
    /\ UNCHANGED <<fsVars, svgVars, fontforge_path, html_file, tags_list, modify_btn,
                   loaded, console, stack, window, process, events>>

\* --------------------------------------------------------- generate_font
\* What subprocess.run can do: raise (the binary cannot be started), or
\* return the compiler's exit code and captured stderr.
RunOutcomes ==
    {[raised |-> TRUE, returncode |-> 0, stderr |-> ""]} \cup
    {[raised |-> FALSE, returncode |-> c, stderr |-> e] :
        c \in {0, 1}, e \in {"", "Open: failed to open file"}}

\* A compiler result taken for success whatever its exit code.
returncode_ignored(result) == ~result.raised

\* line 193: if result.returncode == 0
returncode_ok(result) == result.returncode = 0

generate_font ==
    /\ CanDispatch
    /\ generate_btn
    /\ IF svg_folder = ""
       THEN /\ Dispatched
            /\ log_message(Msg("gf_nofolder", ""))
            /\ stack' = Push(Frame("generate_font", "gf_nofolder"))
       ELSE \E output_file \in {"", "out.ttf"} :
              IF output_file = ""
              THEN UNCHANGED <<console, stack, events, nested>>
              ELSE /\ Dispatched
                   /\ log_message(Msg("gf_generating", ""))
                   /\ stack' = Push([Frame("generate_font", "gf_generating")
                                       EXCEPT !.output_file = output_file])
    /\ UNCHANGED <<fsVars, docVars, svgVars, fontforge_path, window, process>>

\* line 177: a second processEvents() after the one inside log_message
generate_font_processEvents ==
    /\ At("generate_font", "gf_generating")
    /\ stack' = SetTop([Top EXCEPT !.pc = "gf_events"])
    /\ UNCHANGED <<fsVars, docVars, svgVars, fontforge_path, console, window,
                   process, events, nested>>

\* lines 179-200: write the script, run the compiler once, log the outcome
generate_font_build ==
    /\ At("generate_font", "gf_events")
    /\ IF ~tmp.exists
       THEN /\ log_message(Msg("gf_critical", ""))
            /\ stack' = SetTop([Top EXCEPT !.pc = "gf_critical"])
            /\ UNCHANGED <<tmp, font_out>>
       ELSE LET svg_files == glob(svg_folder)
                called    == [Top EXCEPT !.svg_files = svg_files]
            IN /\ tmp' = [tmp EXCEPT !.script = <<generate_fontforge_script(Top.output_file)>>]
               /\ \E result \in RunOutcomes :
                    IF result.raised
                    THEN /\ log_message(Msg("gf_critical", ""))
                         /\ stack' = SetTop([called EXCEPT !.pc = "gf_critical"])
                         /\ UNCHANGED font_out
                    ELSE IF returncode_ok(result)
                    THEN /\ font_out' = {f \in font_out : f.path # Top.output_file} \cup
                                        {[path |-> Top.output_file, glyphs |-> ScriptGlyphs(svg_files)]}
                         /\ log_message(Msg("gf_ok", Top.output_file))
                         /\ stack' = SetTop([called EXCEPT !.pc = "gf_ok", !.runs = @ + 1,
                                                          !.rc = result.returncode, !.stderr = result.stderr])
                    ELSE /\ log_message(Msg("gf_failed", result.stderr))
                         /\ stack' = SetTop([called EXCEPT !.pc = "gf_failed", !.runs = @ + 1,
                                                          !.rc = result.returncode, !.stderr = result.stderr])
                         /\ UNCHANGED font_out
    /\ UNCHANGED <<files, dirs, docVars, svgVars, fontforge_path, window, process, events, nested>>

\* line 195: the note that follows the success line
generate_font_note ==
    /\ At("generate_font", "gf_ok")
    /\ log_message(Msg("gf_note", ""))
    /\ stack' = SetTop([Top EXCEPT !.pc = "gf_note"])
    /\ UNCHANGED <<fsVars, docVars, svgVars, fontforge_path, window, process, events, nested>>

generate_font_return ==
    /\ Alive /\ stack # <<>> /\ Top.op = "generate_font"
    /\ Top.pc \in {"gf_nofolder", "gf_note", "gf_failed", "gf_critical"}
    /\ stack' = Pop
    /\ UNCHANGED <<fsVars, docVars, svgVars, fontforge_path, console, window,
                   process, events, nested>>

\* ----------------------------------------------------------- modify_html
WriteFile(path, text) ==
    [p \in DOMAIN files \cup {path} |-> IF p = path THEN text ELSE files[p]]

\* except Exception: log the error (line 302)
modify_html_except(frame) ==
    /\ log_message(Msg("mh_error", ""))
    /\ stack' = SetTop([frame EXCEPT !.pc = "mh_error"])

\* A tag selection that is never taken for empty.
selection_unchecked(selected_tags) == FALSE

\* line 250: if not selected_tags
no_tags_selected(selected_tags) == selected_tags = {}

\* lines 245-253
modify_html ==
    /\ CanDispatch
    /\ modify_btn
    /\ Dispatched
    /\ IF html_file = ""
       THEN /\ log_message(Msg("mh_nofile", ""))
            /\ stack' = Push(Frame("modify_html", "mh_nofile"))
       ELSE IF no_tags_selected(selected)
       THEN /\ log_message(Msg("mh_notags", ""))
            /\ stack' = Push([Frame("modify_html", "mh_notags") EXCEPT !.doc = html_file])
       ELSE /\ stack' = Push([Frame("modify_html", "mh_read") EXCEPT
                                 !.doc = html_file, !.selected_tags = selected,
                                 !.pre = files[html_file]])
            /\ UNCHANGED console
    /\ UNCHANGED <<fsVars, docVars, svgVars, fontforge_path, window, process>>

\* lines 257-258
modify_html_read ==
    /\ At("modify_html", "mh_read")
    /\ \E readable \in BOOLEAN :
         IF readable
         THEN /\ stack' = SetTop([Top EXCEPT !.content = files[html_file], !.pc = "mh_parse"])
              /\ UNCHANGED console
         ELSE modify_html_except(Top)
    /\ UNCHANGED <<fsVars, docVars, svgVars, fontforge_path, window, process, events, nested>>

\* lines 275-282: None for soup.html makes soup.html.insert raise
InjectStyle(soup, selected_tags) ==
    LET head == FindFirst(soup, "head")
        html == FindFirst(soup, "html")
        head_tag == TagAppend(<<Node("head", 0, {})>>, 1, StyleTag(selected_tags))
    IN IF head # 0 THEN [raised |-> FALSE, soup |-> TagAppend(soup, head, StyleTag(selected_tags))]
       ELSE IF html # 0 THEN [raised |-> FALSE, soup |-> TagInsert0(soup, html, head_tag)]
       ELSE [raised |-> TRUE, soup |-> soup]

\* lines 260-282
modify_html_parse ==
    /\ At("modify_html", "mh_parse")
    /\ LET r == InjectStyle(BeautifulSoup(Top.content), Top.selected_tags)
       IN IF r.raised
          THEN modify_html_except(Top)
          ELSE /\ stack' = SetTop([Top EXCEPT !.soup = r.soup, !.pc = "mh_makedirs"])
               /\ UNCHANGED console
    /\ UNCHANGED <<fsVars, docVars, svgVars, fontforge_path, window, process, events, nested>>

\* lines 285-286: os.makedirs(backup_dir, exist_ok=True)
modify_html_makedirs ==
    /\ At("modify_html", "mh_makedirs")
    /\ \E made \in BOOLEAN :
         IF made
         THEN /\ dirs' = dirs \cup {backup_dir}
              /\ stack' = SetTop([Top EXCEPT !.pc = "mh_copy",
                                   !.wrote = IF backup_dir \in dirs THEN @ ELSE Append(@, backup_dir)])
              /\ UNCHANGED console
         ELSE /\ backup_dir \notin dirs
              /\ modify_html_except(Top)
              /\ UNCHANGED dirs
    /\ UNCHANGED <<files, tmp, font_out, docVars, svgVars, fontforge_path, window,
                   process, events, nested>>

\* The backup step left out: the call goes on to overwrite the document.
modify_html_copy_skipped ==
    /\ At("modify_html", "mh_copy")
    /\ stack' = SetTop([Top EXCEPT !.pc = "mh_open"])
    /\ UNCHANGED <<fsVars, docVars, svgVars, fontforge_path, console, window, process,
                   events, nested>>

\* A backup that is written only when none exists yet.
modify_html_copy_once ==
    /\ At("modify_html", "mh_copy")
    /\ LET backup_file == BackupPath(html_file)
       IN /\ files' = IF backup_file \in DOMAIN files THEN files
                      ELSE [p \in DOMAIN files \cup {backup_file} |->
                              IF p = backup_file THEN files[html_file] ELSE files[p]]
          /\ stack' = SetTop([Top EXCEPT !.pc = "mh_open", !.wrote = Append(@, backup_file)])
    /\ UNCHANGED <<dirs, tmp, font_out, docVars, svgVars, fontforge_path, console, window,
                   process, events, nested>>

\* lines 287-289: shutil.copy2(self.html_file, backup_file)
modify_html_copy ==
    /\ At("modify_html", "mh_copy")
    /\ LET backup_file == BackupPath(html_file)
       IN \E outcome \in {"copied", "denied", "partial"} :
            CASE outcome = "copied" ->
                   /\ files' = WriteFile(backup_file, files[html_file])
                   /\ stack' = SetTop([Top EXCEPT !.pc = "mh_open", !.wrote = Append(@, backup_file)])
                   /\ UNCHANGED console
              [] outcome = "partial" ->
                   /\ files' = WriteFile(backup_file, <<>>)
                   /\ modify_html_except([Top EXCEPT !.wrote = Append(@, backup_file \o ".part")])
              [] OTHER ->
                   /\ modify_html_except(Top)
                   /\ UNCHANGED files
    /\ UNCHANGED <<dirs, tmp, font_out, docVars, svgVars, fontforge_path, window,
                   process, events, nested>>

\* line 292: open(self.html_file, 'w') truncates the file
modify_html_open ==
    /\ At("modify_html", "mh_open")
    /\ \E opened \in BOOLEAN :
         IF opened
         THEN /\ files' = WriteFile(html_file, <<>>)
              /\ stack' = SetTop([Top EXCEPT !.pc = "mh_write", !.wrote = Append(@, html_file)])
              /\ UNCHANGED console
         ELSE /\ modify_html_except(Top)
              /\ UNCHANGED files
    /\ UNCHANGED <<dirs, tmp, font_out, docVars, svgVars, fontforge_path, window,
                   process, events, nested>>

\* lines 293-295: f.write(str(soup)), close, first success line
modify_html_write ==
    /\ At("modify_html", "mh_write")
    /\ \E written \in BOOLEAN :
         IF written
         THEN /\ files' = WriteFile(html_file, Decode(Top.soup))
              /\ log_message(Msg("mh_modified", html_file))
              /\ stack' = SetTop([Top EXCEPT !.pc = "mh_ok1"])
         ELSE /\ modify_html_except(Top)
              /\ UNCHANGED files
    /\ UNCHANGED <<dirs, tmp, font_out, docVars, svgVars, fontforge_path, window,
                   process, events, nested>>

\* lines 296-299
modify_html_report ==
    /\ Alive /\ stack # <<>> /\ Top.op = "modify_html"
    /\ Top.pc \in {"mh_ok1", "mh_ok2", "mh_ok3"}
    /\ LET next == CASE Top.pc = "mh_ok1" -> "mh_ok2"
                     [] Top.pc = "mh_ok2" -> "mh_ok3"
                     [] OTHER             -> "mh_ok4"
       IN /\ log_message(Msg(next, ""))
          /\ stack' = SetTop([Top EXCEPT !.pc = next])
    /\ UNCHANGED <<fsVars, docVars, svgVars, fontforge_path, window, process, events, nested>>

modify_html_return ==
    /\ Alive /\ stack # <<>> /\ Top.op = "modify_html"
    /\ Top.pc \in {"mh_nofile", "mh_notags", "mh_ok4", "mh_error"}
    /\ stack' = Pop
    /\ UNCHANGED <<fsVars, docVars, svgVars, fontforge_path, console, window,
                   process, events, nested>>

\* ------------------------------------------------------------- closeEvent
\* shutil.rmtree(self.temp_dir) inside try/except: pass; event.accept()
closeEvent ==
    /\ CanDispatch
    /\ \E removed \in BOOLEAN :
         tmp' = IF removed THEN [exists |-> FALSE, script |-> <<>>] ELSE tmp
    /\ window' = "closed"
    /\ Dispatched
    /\ UNCHANGED <<files, dirs, font_out, docVars, svgVars, fontforge_path, console,
                   stack, process>>

\* The process ends without closeEvent: a signal, a crash, the machine.
terminate ==
    /\ Alive
    /\ process' = "killed"
    /\ UNCHANGED <<fsVars, docVars, svgVars, fontforge_path, console, stack, window,
                   events, nested>>

Next ==
    \/ select_svg_folder \/ select_svg_folder_return
    \/ select_html_file \/ select_html_file_resume \/ select_html_file_return
    \/ toggle_tag
    \/ generate_font \/ generate_font_processEvents \/ generate_font_build
    \/ generate_font_note \/ generate_font_return
    \/ modify_html \/ modify_html_read \/ modify_html_parse \/ modify_html_makedirs
    \/ modify_html_copy \/ modify_html_open \/ modify_html_write
    \/ modify_html_report \/ modify_html_return
    \/ closeEvent \/ terminate

Spec == Init /\ [][Next]_vars

\* The document pipeline: a session in which only the document handlers
\* are used.
DocInit == Constructed({"/usr/bin/fontforge"}, SessionTexts, Docs)

DocNext ==
    \/ select_html_file \/ select_html_file_resume \/ select_html_file_return
    \/ toggle_tag
    \/ modify_html \/ modify_html_read \/ modify_html_parse \/ modify_html_makedirs
    \/ modify_html_copy \/ modify_html_open \/ modify_html_write
    \/ modify_html_report \/ modify_html_return

DocSpec == DocInit /\ [][DocNext]_vars

\* Tag extraction over every document text of up to MaxTokens tokens.
LoadInit == Constructed({"/usr/bin/fontforge"}, AllTexts, {"a.html"})

LoadNext == select_html_file \/ select_html_file_resume \/ select_html_file_return

LoadSpec == LoadInit /\ [][LoadNext]_vars

\* The font pipeline: a session in which only the glyph folder, the build
\* and the window's close box are used.
FontInit == Constructed({"/usr/bin/fontforge", "None"}, {Fragment}, Docs)

FontNext ==
    \/ select_svg_folder \/ select_svg_folder_return
    \/ generate_font \/ generate_font_processEvents \/ generate_font_build
    \/ generate_font_note \/ generate_font_return
    \/ closeEvent \/ terminate

FontSpec == FontInit /\ [][FontNext]_vars

\* ================================================================ properties
Frames == {stack[i] : i \in 1..Len(stack)}
EditFrames == {f \in Frames : f.op = "modify_html"}
BuildFrames == {f \in Frames : f.op = "generate_font"}
Uppermost(op) == stack # <<>> /\ Top.op = op
LastLine == console[Len(console)]
StyleCount(soup) == Cardinality({i \in 1..Len(soup) : soup[i].n = "style"})
MarkupOf(text) == {tok \in {text[i] : i \in 1..Len(text)} : tok.k = "open"}

\* C1: a modify_html call opens the document for writing only after the same
\* call has written the backup: in the order of the call's own writes the
\* backup path comes before the document path, the document on disk still has
\* its pre-call text at every step up to the open, and at the moment it has
\* been opened the backup on disk holds that pre-call text.  A call whose
\* makedirs or copy failed has never opened the document.
C1_BackupPrecedesOverwrite ==
    /\ \A f \in EditFrames :
         /\ InSeq(f.doc, f.wrote) =>
               \E i, j \in 1..Len(f.wrote) :
                  i < j /\ f.wrote[i] = "backups/" \o f.doc /\ f.wrote[j] = f.doc
         /\ (f.pc = "mh_error" /\ ~InSeq("backups/" \o f.doc, f.wrote)) => ~InSeq(f.doc, f.wrote)
    /\ (Uppermost("modify_html") /\ Top.pc \in {"mh_read", "mh_parse", "mh_makedirs", "mh_copy", "mh_open"})
          => files[Top.doc] = Top.pre
    /\ (Uppermost("modify_html") /\ Top.pc = "mh_write")
          => /\ "backups" \in dirs
             /\ ("backups/" \o Top.doc) \in DOMAIN files
             /\ files["backups/" \o Top.doc] = Top.pre

C1_Witness ==
    /\ Uppermost("modify_html") /\ Top.pc = "mh_write"
    /\ Top.pre # <<>>

\* C2: whenever a modify_html call fails, at whatever step, the document on
\* disk is what it was before the call.
C2_FailureLeavesDocument ==
    [][(Uppermost("modify_html") /\ Top.pc # "mh_error" /\ Len(stack') = Len(stack)
          /\ stack'[Len(stack)].pc = "mh_error")
        => files'[Top.doc] = Top.pre]_vars

\* C3: modify_html entered with no document chosen or with no tag selected
\* logs its message and does nothing else: the step writes no file and makes
\* no directory, the call performs no write of its own, and its only further
\* step is to return.
C3_RejectedWithoutWrites ==
    [][/\ (Len(stack') = Len(stack) + 1 /\ stack'[Len(stack')].op = "modify_html"
             /\ (html_file = "" \/ selected = {}))
          => /\ stack'[Len(stack')].pc = (IF html_file = "" THEN "mh_nofile" ELSE "mh_notags")
             /\ console' = Append(console, Msg(stack'[Len(stack')].pc, ""))
             /\ stack'[Len(stack')].wrote = <<>>
             /\ files' = files /\ dirs' = dirs
       /\ (Uppermost("modify_html") /\ Top.pc \in {"mh_nofile", "mh_notags"}
             /\ Len(stack') <= Len(stack) /\ stack' # stack)
          => /\ stack' = Pop
             /\ Top.wrote = <<>>
             /\ files' = files /\ dirs' = dirs /\ console' = console]_vars

C3_Witness ==
    /\ Uppermost("modify_html") /\ Top.pc = "mh_notags"
    /\ tags_list # <<>>

\* C4: for every document that parses and every non-empty selection, the
\* injection of lines 275-282 succeeds and adds exactly one style element:
\* last child of the head section when there is one, otherwise inside a new
\* head section placed first; also when the document has no html element.
C4_StyleAlwaysInjected ==
    (Uppermost("modify_html") /\ Top.pc = "mh_parse") =>
        LET before == BeautifulSoup(Top.content)
            r      == InjectStyle(before, Top.selected_tags)
            head   == FindFirst(r.soup, "head")
        IN /\ ~r.raised
           /\ StyleCount(r.soup) = StyleCount(before) + 1
           /\ head # 0
           /\ r.soup[SubtreeEnd(r.soup, head)].n = "#text"
           /\ r.soup[SubtreeEnd(r.soup, head) - 1].n = "style"
           /\ r.soup[SubtreeEnd(r.soup, head) - 1].d = r.soup[head].d + 1

\* C5: when a modify_html call has written the document, the backup file
\* backups/<name> holds the text the document had before that call (on a
\* second call: the once-augmented text), and the only files beside the
\* documents are one backup per document.
C5_BackupIsPreCallText ==
    /\ (Uppermost("modify_html") /\ Top.pc = "mh_ok1" /\ LastLine.m = "mh_modified")
          => /\ ("backups/" \o Top.doc) \in DOMAIN files
             /\ files["backups/" \o Top.doc] = Top.pre
             /\ files[Top.doc] # Top.pre
    /\ DOMAIN files \ Docs \subseteq {"backups/a.html", "backups/b.php"}
    /\ \A d \in Docs : ("backups/" \o d) \in DOMAIN files => "backups" \in dirs

C5_Witness ==
    /\ Uppermost("modify_html") /\ Top.pc = "mh_ok1" /\ LastLine.m = "mh_modified"
    /\ \E i \in 1..Len(Top.pre) : Top.pre[i].n = "style"
    /\ files["backups/" \o Top.doc] = Top.pre

\* C6: after a successful load the tag list holds exactly the element names
\* of the document (every start tag's name, lower-cased), each once, in
\* strictly ascending order, none empty.  Such a list is determined by the
\* text alone, so a second load of the same text gives the same list.
C6_TagListIsSortedNameSet ==
    loaded # <<>> =>
        /\ {tags_list[i] : i \in 1..Len(tags_list)} =
              {IF tok.n = "P" THEN "p" ELSE tok.n : tok \in MarkupOf(loaded[1])}
        /\ \A i, j \in 1..Len(tags_list) : i < j => NameRank(tags_list[i]) < NameRank(tags_list[j])
        /\ \A i \in 1..Len(tags_list) : tags_list[i] # ""

C6_Witness ==
    /\ html_file = "a.html"
    /\ loaded = <<files[html_file]>>
    /\ loaded[1] = <<OpenT("P"), OpenT("html")>>
    /\ tags_list = <<"html", "p">>

\* C7: the build step of a generate_font call runs the compiler at most
\* once; having run it, the step logs the success line exactly when the exit
\* code is 0, and otherwise logs the failure line carrying the captured stderr
\* and produces no font; no other step logs a success line, and no later step
\* of the call runs the compiler again.
C7_OneRunOutcomeLogged ==
    [][/\ (Uppermost("generate_font") /\ Top.pc = "gf_events" /\ Len(stack') = Len(stack)
             /\ stack' # stack)
          => LET g == stack'[Len(stack)]
             IN /\ g.runs <= 1
                /\ g.pc = "gf_ok" <=> (g.runs = 1 /\ g.rc = 0)
                /\ g.pc = "gf_failed" <=> (g.runs = 1 /\ g.rc # 0)
                /\ g.pc = "gf_critical" <=> g.runs = 0
                /\ g.pc = "gf_ok" => console' = Append(console, Msg("gf_ok", g.output_file))
                /\ g.pc = "gf_failed" =>
                      /\ console' = Append(console, Msg("gf_failed", g.stderr))
                      /\ font_out' = font_out
       /\ (console' # console /\ console'[Len(console')].m = "gf_ok")
          => /\ Uppermost("generate_font") /\ Top.pc = "gf_events"
             /\ Len(stack') = Len(stack)
             /\ stack'[Len(stack)].rc = 0 /\ stack'[Len(stack)].runs = 1
       /\ \A i \in 1..Len(stack) :
            (i <= Len(stack') /\ stack[i].op = "generate_font" /\ stack[i].pc # "gf_events")
               => stack'[i].runs = stack[i].runs]_vars

C7_Witness ==
    /\ Uppermost("generate_font") /\ Top.pc = "gf_failed"
    /\ Top.stderr # "" /\ LastLine = Msg("gf_failed", Top.stderr)

\* A file name that names a code point: one character, or U+ and four
\* hexadecimal digits.
Resolvable(stem) ==
    \/ Len(stem) = 1
    \/ /\ Len(stem) = 6 /\ stem[1] = "U" /\ stem[2] = "+"
       /\ \A i \in 3..6 : stem[i] \in {"0", "1", "4"}

\* C8: no generate_font call reports success after handing the compiler a
\* glyph file whose name resolves to no code point.
C8_UnresolvableGlyphSurfaced ==
    \A f \in BuildFrames :
        f.pc \in {"gf_ok", "gf_note"} =>
            \A i \in 1..Len(f.svg_files) : Resolvable(f.svg_files[i])

\* C9: once the session has ended, by the window closing or by the process
\* being terminated, the temporary directory is gone.
C9_TempDirRemovedOnExit ==
    (Exited \/ process = "killed") => ~tmp.exists

\* C10: no generate_font and no modify_html begins while a generate_font
\* call has started and not yet returned.
C10_NoHandlerInsideBuild ==
    \A i, j \in 1..Len(stack) :
        (i < j /\ stack[i].op = "generate_font")
            => stack[j].op \notin {"generate_font", "modify_html"}
====
